---- MODULE Spec2Model ----
(***************************************************************************)
(* A model of appscale/agents/config.py (class AppScaleState):             *)
(*   - shell(): the command runner with its retry loop;                    *)
(*   - get_infrastructure_option() and upgrade_json_file(): the locations  *)
(*     store and its migration from the legacy two-file layout.            *)
(* The file is Python 2 (the literal 0600 at line 45), where IOError and   *)
(* OSError are distinct exception classes.                                 *)
(***************************************************************************)
EXTENDS Integers, Sequences, FiniteSets, TLC

(***************************************************************************)
(* Bounds of the model.                                                    *)
(***************************************************************************)
\* largest num_retries value a caller passes
MaxRetries == 3
\* number of calls of get_infrastructure_option / upgrade_json_file in a run
MaxCalls == 3

\* DEFAULT_NUM_RETRIES, the default of num_retries
DEFAULT_NUM_RETRIES == 5

\* the executions after which a never-ending loop (num_retries < 0) is cut
MaxAttempts == MaxRetries + 1

VARIABLES
  \* ---- shell(): arguments and locals
  sh_pc,          \* position in shell(): idle, while, running, sleep, done
  command,        \* the command argument
  stdin,          \* the stdin argument (None or a string)
  num_retries,    \* the num_retries argument
  tries_left,     \* the local tries_left
  the_temp_file,  \* the local the_temp_file: [open, data]
  stdin_strio,    \* the local stdin_strio: [open, data]
  sh_result,      \* what shell() returned or raised
  \* ---- shell(): what happened during the call (history)
  events,         \* the Popen calls, exits and sleeps of the call, in order
  outs,           \* the output captured by each execution, in order
  open_out,       \* output temp files allocated by the call and not closed
  open_in,        \* stdin temp files allocated by the call and not closed
  \* ---- the locations store: the files and the call in progress
  fs,             \* the config directory: path -> [exists, text]
  st_pc,          \* position in get_infrastructure_option / upgrade_json_file
  caller,         \* who called upgrade_json_file: getter, direct (none: no call)
  tag,            \* the tag argument of get_infrastructure_option
  keyname,        \* the keyname argument
  file_contents,  \* the local file_contents of get_infrastructure_option
  role_info,      \* the local role_info of upgrade_json_file
  locations_yaml_contents,  \* the local locations_yaml_contents
  st_result,      \* what the call returned or raised
  \* ---- the locations store: what happened (history)
  calls,          \* calls made so far
  fs_at_call,     \* the config directory when the call began
  upgrade_calls,  \* upgrade_json_file invocations made by the call
  json_opens,     \* times the call opened the JSON file for writing
  json_writes,    \* writes of the JSON file the call completed
  faults,         \* the I/O steps of the call that failed ("_absent": no such file)
  json_written,   \* keyname -> this module completed a write of its JSON file
  yaml_removed,   \* keyname -> [removed, val]: the YAML content it removed
  migrations,     \* keyname -> migrations completed on behalf of a getter
  \* ---- a second process calling get_infrastructure_option on the same
  \* ---- config directory: its position, arguments, locals and result
  r_pc,
  r_tag,
  r_keyname,
  r_file_contents,
  r_role_info,
  r_locations_yaml_contents,
  r_result,
  r_seen          \* what its first read of the JSON file found, and when

shell_vars == <<sh_pc, command, stdin, num_retries, tries_left, the_temp_file,
                stdin_strio, sh_result, events, outs, open_out, open_in>>

store_vars == <<fs, st_pc, caller, tag, keyname, file_contents, role_info,
                locations_yaml_contents, st_result, calls, fs_at_call,
                upgrade_calls, json_opens, json_writes, faults, json_written,
                yaml_removed, migrations>>

race_vars == <<r_pc, r_tag, r_keyname, r_file_contents, r_role_info,
               r_locations_yaml_contents, r_result, r_seen>>

vars == <<shell_vars, store_vars, race_vars>>

(***************************************************************************)
(* Values of the locations documents, as Python decodes them: None, a str, *)
(* a list, a dict with str keys. Every value has the same four fields.     *)
(***************************************************************************)
NoFields == [k \in {} |-> 0]

Null == [t |-> "null", s |-> "", items |-> <<>>, fields |-> NoFields]

Str(x) == [t |-> "str", s |-> x, items |-> <<>>, fields |-> NoFields]

List(q) == [t |-> "list", s |-> "", items |-> q, fields |-> NoFields]

Map(f) == [t |-> "map", s |-> "", items |-> <<>>, fields |-> f]

(***************************************************************************)
(* The text of a file: a sequence of tokens. P is a punctuation mark, Q a  *)
(* double-quoted string, U a plain (unquoted) scalar.                      *)
(***************************************************************************)
P(x) == [k |-> "p", s |-> x]

Q(x) == [k |-> "q", s |-> x]

U(x) == [k |-> "u", s |-> x]

\* the keys of a dict in the order the encoder walks them
KeySeq(S) ==
  CHOOSE q \in [1 .. Cardinality(S) -> S] : \A k \in S : \E i \in DOMAIN q : q[i] = k

RECURSIVE JsonDumps(_)
RECURSIVE DumpItems(_, _)
RECURSIVE DumpFields(_, _, _)

DumpItems(q, i) ==
  IF i > Len(q) THEN <<>>
  ELSE (IF i > 1 THEN <<P(",")>> ELSE <<>>) \o JsonDumps(q[i]) \o DumpItems(q, i + 1)

DumpFields(f, ks, i) ==
  IF i > Len(ks) THEN <<>>
  ELSE (IF i > 1 THEN <<P(",")>> ELSE <<>>)
       \o <<Q(ks[i]), P(":")>> \o JsonDumps(f[ks[i]]) \o DumpFields(f, ks, i + 1)

\* json.dumps(value)
JsonDumps(v) ==
  CASE v.t = "null" -> <<U("null")>>
    [] v.t = "str"  -> <<Q(v.s)>>
    [] v.t = "list" -> <<P("[")>> \o DumpItems(v.items, 1) \o <<P("]")>>
    [] v.t = "map"  -> <<P("{")>> \o DumpFields(v.fields, KeySeq(DOMAIN v.fields), 1)
                         \o <<P("}")>>

ParseFail == [ok |-> FALSE, val |-> Null, rest |-> <<>>]

Parsed(v, r) == [ok |-> TRUE, val |-> v, rest |-> r]

RECURSIVE ParseValue(_, _)
RECURSIVE ParseItems(_, _, _)
RECURSIVE ParseFields(_, _, _)

\* the items of a list after "[" or ",": a value, then "," or "]"
ParseItems(toks, yaml, acc) ==
  LET v == ParseValue(toks, yaml) IN
  IF ~v.ok \/ v.rest = <<>> THEN ParseFail
  ELSE IF Head(v.rest) = P("]") THEN Parsed(List(Append(acc, v.val)), Tail(v.rest))
  ELSE IF Head(v.rest) = P(",") THEN ParseItems(Tail(v.rest), yaml, Append(acc, v.val))
  ELSE ParseFail

\* the fields of a mapping after "{" or ",": key, ":", value, then "," or "}".
\* A key is a quoted string; YAML also takes a plain scalar.
ParseFields(toks, yaml, acc) ==
  IF Len(toks) < 3 THEN ParseFail
  ELSE LET key == toks[1] IN
  IF ~(key.k = "q" \/ (yaml /\ key.k = "u")) \/ toks[2] # P(":") THEN ParseFail
  ELSE LET v == ParseValue(SubSeq(toks, 3, Len(toks)), yaml)
           f == (key.s :> v.val) @@ acc
       IN
       IF ~v.ok \/ v.rest = <<>> THEN ParseFail
       ELSE IF Head(v.rest) = P("}") THEN Parsed(Map(f), Tail(v.rest))
       ELSE IF Head(v.rest) = P(",") THEN ParseFields(Tail(v.rest), yaml, f)
       ELSE ParseFail

\* one value at the head of the text. The plain scalar null is None in both
\* formats; any other plain scalar is a str in YAML and an error in JSON.
ParseValue(toks, yaml) ==
  IF toks = <<>> THEN ParseFail
  ELSE LET h == Head(toks)
           r == Tail(toks)
       IN
       CASE h.k = "q" -> Parsed(Str(h.s), r)
         [] h.k = "u" -> IF h.s = "null" THEN Parsed(Null, r)
                         ELSE IF yaml THEN Parsed(Str(h.s), r) ELSE ParseFail
         [] h = P("[") -> IF r # <<>> /\ Head(r) = P("]")
                            THEN Parsed(List(<<>>), Tail(r))
                            ELSE ParseItems(r, yaml, <<>>)
         [] h = P("{") -> IF r # <<>> /\ Head(r) = P("}")
                            THEN Parsed(Map(NoFields), Tail(r))
                            ELSE ParseFields(r, yaml, NoFields)
         [] OTHER -> ParseFail

\* json.loads(text): the value, or ValueError (ok = FALSE); an empty text is
\* an error ("No JSON object could be decoded")
JsonLoads(text) ==
  LET r == ParseValue(text, FALSE) IN
  IF r.ok /\ r.rest = <<>> THEN [ok |-> TRUE, val |-> r.val]
  ELSE [ok |-> FALSE, val |-> Null]

\* yaml.safe_load(text): the value, or YAMLError (ok = FALSE); an empty text
\* is no document at all and loads as None
YamlSafeLoad(text) ==
  IF text = <<>> THEN [ok |-> TRUE, val |-> Null]
  ELSE LET r == ParseValue(text, TRUE) IN
       IF r.ok /\ r.rest = <<>> THEN [ok |-> TRUE, val |-> r.val]
       ELSE [ok |-> FALSE, val |-> Null]

(***************************************************************************)
(* The locations store: keynames, tags, paths and the files on disk.       *)
(***************************************************************************)
\* "X" names a deployment; nothing was ever stored for "Y"
KeyNames == {"X", "Y"}

\* zone and project are fields a deployment may set; group is set by none
Tags == {"zone", "project", "group"}

\* locations_json_location(keyname): ~/.appscale/locations-{keyname}.json
LocationsJsonLocation(k) == <<"locations-", k, ".json">>

\* locations_yaml_location(keyname): ~/.appscale/locations-{keyname}.yaml
LocationsYamlLocation(k) == <<"locations-", k, ".yaml">>

Paths == {LocationsJsonLocation(k) : k \in KeyNames}
           \cup {LocationsYamlLocation(k) : k \in KeyNames}

NoFile == [exists |-> FALSE, text |-> <<>>]

FileWith(text) == [exists |-> TRUE, text |-> text]

\* a text with its quoted strings written as plain scalars, as a YAML
\* writer writes them
Unquoted(text) ==
  [i \in DOMAIN text |-> IF text[i].k = "q" THEN U(text[i].s) ELSE text[i]]

\* the legacy node list
LegacyNodes == List(<<Str("nodeA"), Str("nodeB")>>)

ZoneOnly == Map("zone" :> Str("us-east1"))

ZoneAndProject == Map(("zone" :> Str("us-east1")) @@ ("project" :> Str("p1")))

\* the infrastructure_info mappings a deployment stores
InfoValues == {ZoneOnly, ZoneAndProject, Map(NoFields)}

\* the legacy YAML files: a mapping, or an empty file
LegacyYamlTexts == {Unquoted(JsonDumps(m)) : m \in InfoValues} \cup {<<>>}

\* the JSON files: the legacy list, a unified document, or a mapping that
\* has no infrastructure_info section
InitialJsonTexts ==
  {JsonDumps(LegacyNodes)}
    \cup {JsonDumps(Map(("node_info" :> LegacyNodes) @@ ("infrastructure_info" :> m))) :
            m \in InfoValues}
    \cup {JsonDumps(Map("node_info" :> LegacyNodes))}

(***************************************************************************)
(* What a call of the store returns or raises.                             *)
(***************************************************************************)
StNoResult == [kind |-> "none", exc |-> "", val |-> Null]

\* return value (None is Null)
StReturned(v) == [kind |-> "returned", exc |-> "", val |-> v]

StRaised(e) == [kind |-> "raised", exc |-> e, val |-> Null]

\* the except clause of the getter written as `except IOError: return None`
ConfigSwallowed == StReturned(Null)

\* BadConfigurationException("Couldn't read from locations file, ...")
ConfigNotFound == StRaised("BadConfigurationException: Couldn't read from locations file")

\* BadConfigurationException("Couldn't upgrade locations json file, ...")
MigrationFailed == StRaised("BadConfigurationException: Couldn't upgrade locations json file")

\* the test with the isinstance check left out: every document is upgraded
AlwaysUpgrade(v) == TRUE

\* isinstance(file_contents, list)
IsLegacyList(v) == v.t = "list"

\* the node list written back alone, the YAML content dropped
UnifiedKeepsList(role, yml) == role

\* locations_json = {'node_info': role_info,
\*                   'infrastructure_info': locations_yaml_contents}
UnifiedDocument(role, yml) ==
  Map(("node_info" :> role) @@ ("infrastructure_info" :> yml))

\* read() with the seek(0) before it left out: the handle is at the end
RereadAtEnd(text) == <<>>

\* file_handle.seek(0); file_handle.read(): the text now in the file
SeekAndRead(text) == text

\* what an interrupted write can leave in the file that open(..., 'w') has
\* emptied: any proper prefix of the text
\* write(text) on a handle just opened: the text goes to offset 0 of the
\* file, over what the file holds there (nothing, unless another process
\* has written to the file since the open emptied it)
WriteAtStart(old, text) == text \o SubSeq(old, Len(text) + 1, Len(old))

PartialTexts(text) == {SubSeq(text, 1, n) : n \in 0 .. (Len(text) - 1)}

\* file_contents.get('infrastructure_info', {}).get(tag); a value that is
\* not a dict has no get method
InfrastructureOption(fc, t) ==
  IF fc.t # "map" THEN StRaised("AttributeError")
  ELSE LET info == IF "infrastructure_info" \in DOMAIN fc.fields
                     THEN fc.fields["infrastructure_info"]
                     ELSE Map(NoFields)
       IN
       IF info.t # "map" THEN StRaised("AttributeError")
       ELSE IF t \in DOMAIN info.fields THEN StReturned(info.fields[t])
       ELSE StReturned(Null)

NotRemoved == [removed |-> FALSE, val |-> Null]

\* the store at rest, nothing called yet, on the files `files`
\* the second process has not read the JSON file yet
NotSeen == [read |-> FALSE, ok |-> FALSE, val |-> Null, during |-> "idle"]

\* the second process before its call
RacerAtRest ==
  /\ r_pc = "idle"
  /\ r_tag = "zone"
  /\ r_keyname = "X"
  /\ r_file_contents = Null
  /\ r_role_info = Null
  /\ r_locations_yaml_contents = Null
  /\ r_result = StNoResult
  /\ r_seen = NotSeen

StoreAtRest(files) ==
  /\ RacerAtRest
  /\ fs = files
  /\ st_pc = "idle"
  /\ caller = "none"
  /\ tag = "zone"
  /\ keyname = "X"
  /\ file_contents = Null
  /\ role_info = Null
  /\ locations_yaml_contents = Null
  /\ st_result = StNoResult
  /\ calls = 0
  /\ fs_at_call = files
  /\ upgrade_calls = 0
  /\ json_opens = 0
  /\ json_writes = 0
  /\ faults = {}
  /\ json_written = [k \in KeyNames |-> FALSE]
  /\ yaml_removed = [k \in KeyNames |-> NotRemoved]
  /\ migrations = [k \in KeyNames |-> 0]

\* an empty config directory
StoreIdle == StoreAtRest([p \in Paths |-> NoFile])

\* the config directory as the provisioning step left it: for "X" a JSON
\* file (or none) and a legacy YAML file (or none), for "Y" nothing
StoreInit ==
  \E j \in {NoFile} \cup {FileWith(t) : t \in InitialJsonTexts},
     y \in {NoFile} \cup {FileWith(t) : t \in LegacyYamlTexts} :
    StoreAtRest([p \in Paths |->
                   IF p = LocationsJsonLocation("X") THEN j
                   ELSE IF p = LocationsYamlLocation("X") THEN y
                   ELSE NoFile])

(***************************************************************************)
(* BadConfigurationException is defined in appscale.agents.agent_exceptions *)
(* as its own exception class: it is not an IOError, so an `except IOError` *)
(* clause lets it pass.                                                     *)
(***************************************************************************)
BadConfigurationIsIOError == FALSE

\* the getter's handler written as a bare `except:`, which turns whatever
\* is raised below it into the "Couldn't read" error
CatchesEverything(r) ==
  IF caller = "getter" /\ r.kind = "raised" THEN ConfigNotFound ELSE r

\* Lines 268-271: the `except IOError` of the getter, as it meets the
\* result r that upgrade_json_file (called at line 264) ended with
ThroughGetter(r) ==
  IF caller = "getter" /\ r = MigrationFailed /\ BadConfigurationIsIOError
    THEN ConfigNotFound
    ELSE r

\* a call begins: the locals and the history of the call are reset
BeginCall(who, t, k) ==
  /\ st_pc = "idle"
  /\ calls < MaxCalls
  /\ calls' = calls + 1
  /\ caller' = who
  /\ tag' = t
  /\ keyname' = k
  /\ file_contents' = Null
  /\ role_info' = Null
  /\ locations_yaml_contents' = Null
  /\ st_result' = StNoResult
  /\ fs_at_call' = fs
  /\ upgrade_calls' = (IF who = "direct" THEN 1 ELSE 0)
  /\ json_opens' = 0
  /\ json_writes' = 0
  /\ faults' = {}
  /\ UNCHANGED <<fs, json_written, yaml_removed, migrations>>

\* the call ends with result r
EndCall(r) ==
  /\ st_result' = r
  /\ st_pc' = "done"

(***************************************************************************)
(* get_infrastructure_option(tag, keyname): entry.                         *)
(***************************************************************************)
GetCall ==
  /\ \E t \in Tags, k \in KeyNames : BeginCall("getter", t, k)
  /\ st_pc' = "g_open"
  /\ UNCHANGED <<shell_vars, race_vars>>

(***************************************************************************)
(* Lines 261-264: open the JSON file, read it, yaml.safe_load it, test     *)
(* for the legacy list. open or read raising IOError ends the call with    *)
(* the "Couldn't read" BadConfigurationException; a YAMLError propagates.  *)
(***************************************************************************)
GetOpenRead ==
  /\ st_pc = "g_open"
  /\ \E fault \in BOOLEAN :
       LET file == fs[LocationsJsonLocation(keyname)]
           doc == YamlSafeLoad(file.text)
       IN
       /\ faults' = (IF fault /\ file.exists THEN faults \cup {"g_open"} ELSE faults)
       /\ IF fault \/ ~file.exists
            THEN EndCall(ConfigNotFound) /\ UNCHANGED <<file_contents, upgrade_calls>>
            ELSE IF ~doc.ok
              THEN EndCall(StRaised("YAMLError"))
                   /\ UNCHANGED <<file_contents, upgrade_calls>>
              ELSE /\ file_contents' = doc.val
                   /\ IF IsLegacyList(doc.val)
                        THEN st_pc' = "u_read_json" /\ upgrade_calls' = upgrade_calls + 1
                        ELSE st_pc' = "g_return" /\ UNCHANGED upgrade_calls
                   /\ UNCHANGED st_result
  /\ UNCHANGED <<fs, caller, tag, keyname, role_info, locations_yaml_contents,
                 calls, fs_at_call, json_opens, json_writes, json_written,
                 yaml_removed, migrations>>
  /\ UNCHANGED <<shell_vars, race_vars>>

(***************************************************************************)
(* upgrade_json_file(keyname) called by a caller outside the module.       *)
(***************************************************************************)
UpgradeCall ==
  /\ \E k \in KeyNames : BeginCall("direct", "zone", k)
  /\ st_pc' = "u_read_json"
  /\ UNCHANGED <<shell_vars, race_vars>>

(***************************************************************************)
(* Lines 291-292: open and read the JSON file, json.loads it. IOError      *)
(* becomes the "Couldn't upgrade" BadConfigurationException; the           *)
(* ValueError of json.loads propagates.                                    *)
(***************************************************************************)
UpgradeReadJson ==
  /\ st_pc = "u_read_json"
  /\ \E fault \in BOOLEAN :
       LET file == fs[LocationsJsonLocation(keyname)]
           doc == JsonLoads(file.text)
       IN
       /\ faults' = (IF ~file.exists THEN faults \cup {"u_read_json_absent"}
                     ELSE IF fault THEN faults \cup {"u_read_json"} ELSE faults)
       /\ IF fault \/ ~file.exists
            THEN EndCall(ThroughGetter(MigrationFailed)) /\ UNCHANGED role_info
            ELSE IF ~doc.ok
              THEN EndCall(StRaised("ValueError")) /\ UNCHANGED role_info
              ELSE /\ role_info' = doc.val
                   /\ st_pc' = "u_read_yaml"
                   /\ UNCHANGED st_result
  /\ UNCHANGED <<fs, caller, tag, keyname, file_contents, locations_yaml_contents,
                 calls, fs_at_call, upgrade_calls, json_opens, json_writes,
                 json_written, yaml_removed, migrations>>
  /\ UNCHANGED <<shell_vars, race_vars>>

(***************************************************************************)
(* Lines 296-302: open and read the YAML file, yaml.safe_load it.          *)
(***************************************************************************)
UpgradeReadYaml ==
  /\ st_pc = "u_read_yaml"
  /\ \E fault \in BOOLEAN :
       LET file == fs[LocationsYamlLocation(keyname)]
           doc == YamlSafeLoad(file.text)
       IN
       /\ faults' = (IF ~file.exists THEN faults \cup {"u_read_yaml_absent"}
                     ELSE IF fault THEN faults \cup {"u_read_yaml"} ELSE faults)
       /\ IF fault \/ ~file.exists
            THEN EndCall(ThroughGetter(MigrationFailed)) /\ UNCHANGED locations_yaml_contents
            ELSE IF ~doc.ok
              THEN EndCall(StRaised("YAMLError")) /\ UNCHANGED locations_yaml_contents
              ELSE /\ locations_yaml_contents' = doc.val
                   /\ st_pc' = "u_open_w"
                   /\ UNCHANGED st_result
  /\ UNCHANGED <<fs, caller, tag, keyname, file_contents, role_info, calls,
                 fs_at_call, upgrade_calls, json_opens, json_writes, json_written,
                 yaml_removed, migrations>>
  /\ UNCHANGED <<shell_vars, race_vars>>

(***************************************************************************)
(* Line 314 with the file opened in mode 'r+': nothing is emptied, the     *)
(* write that follows goes over the old content.                           *)
(***************************************************************************)
UpgradeOpenKeepsContent ==
  /\ st_pc = "u_open_w"
  /\ \E fault \in BOOLEAN :
       IF fault
         THEN /\ faults' = faults \cup {"u_open_w"}
              /\ EndCall(ThroughGetter(MigrationFailed))
              /\ UNCHANGED json_opens
         ELSE /\ json_opens' = json_opens + 1
              /\ st_pc' = "u_write"
              /\ UNCHANGED <<faults, st_result>>
  /\ UNCHANGED <<fs, caller, tag, keyname, file_contents, role_info,
                 locations_yaml_contents, calls, fs_at_call, upgrade_calls,
                 json_writes, json_written, yaml_removed, migrations>>
  /\ UNCHANGED <<shell_vars, race_vars>>

(***************************************************************************)
(* Line 314: open(json, 'w'). The open fails with IOError and leaves the   *)
(* file as it is, or succeeds and the file is now empty.                   *)
(***************************************************************************)
UpgradeOpenWrite ==
  /\ st_pc = "u_open_w"
  /\ \E fault \in BOOLEAN :
       IF fault
         THEN /\ faults' = faults \cup {"u_open_w"}
              /\ EndCall(ThroughGetter(MigrationFailed))
              /\ UNCHANGED <<fs, json_opens>>
         ELSE /\ fs' = [fs EXCEPT ![LocationsJsonLocation(keyname)] = FileWith(<<>>)]
              /\ json_opens' = json_opens + 1
              /\ st_pc' = "u_write"
              /\ UNCHANGED <<faults, st_result>>
  /\ UNCHANGED <<caller, tag, keyname, file_contents, role_info,
                 locations_yaml_contents, calls, fs_at_call, upgrade_calls,
                 json_writes, json_written, yaml_removed, migrations>>
  /\ UNCHANGED <<shell_vars, race_vars>>

(***************************************************************************)
(* UpgradeWrite with the cleanup done whatever the write did (as a         *)
(* `finally:` would): a failed write goes on to the removal.               *)
(***************************************************************************)
UpgradeWriteCleansUpAnyway ==
  /\ st_pc = "u_write"
  /\ LET path == LocationsJsonLocation(keyname)
         text == JsonDumps(UnifiedDocument(role_info, locations_yaml_contents))
     IN
     \E fault \in BOOLEAN :
       IF fault
         THEN /\ \E part \in PartialTexts(text) :
                   fs' = [fs EXCEPT ![path] = FileWith(WriteAtStart(@.text, part))]
              /\ faults' = faults \cup {"u_write"}
              /\ st_pc' = "u_remove"
              /\ UNCHANGED <<json_writes, json_written, migrations, st_result>>
         ELSE /\ fs' = [fs EXCEPT ![path] = FileWith(WriteAtStart(@.text, text))]
              /\ json_writes' = json_writes + 1
              /\ json_written' = [json_written EXCEPT ![keyname] = TRUE]
              /\ migrations' = (IF caller = "getter"
                                  THEN [migrations EXCEPT ![keyname] = @ + 1]
                                  ELSE migrations)
              /\ st_pc' = "u_remove"
              /\ UNCHANGED <<faults, st_result>>
  /\ UNCHANGED <<caller, tag, keyname, file_contents, role_info,
                 locations_yaml_contents, calls, fs_at_call, upgrade_calls,
                 json_opens, yaml_removed>>
  /\ UNCHANGED <<shell_vars, race_vars>>

(***************************************************************************)
(* Lines 307-315: the unified dictionary is built, json.dumps'ed and       *)
(* written, and the file is closed. A write that fails with IOError        *)
(* leaves a proper prefix of the text in the emptied file.                 *)
(***************************************************************************)
UpgradeWrite ==
  /\ st_pc = "u_write"
  /\ LET path == LocationsJsonLocation(keyname)
         text == JsonDumps(UnifiedDocument(role_info, locations_yaml_contents))
     IN
     \E fault \in BOOLEAN :
       IF fault
         THEN /\ \E part \in PartialTexts(text) :
                   fs' = [fs EXCEPT ![path] = FileWith(WriteAtStart(@.text, part))]
              /\ faults' = faults \cup {"u_write"}
              /\ EndCall(ThroughGetter(MigrationFailed))
              /\ UNCHANGED <<json_writes, json_written, migrations>>
         ELSE /\ fs' = [fs EXCEPT ![path] = FileWith(WriteAtStart(@.text, text))]
              /\ json_writes' = json_writes + 1
              /\ json_written' = [json_written EXCEPT ![keyname] = TRUE]
              /\ migrations' = (IF caller = "getter"
                                  THEN [migrations EXCEPT ![keyname] = @ + 1]
                                  ELSE migrations)
              /\ st_pc' = "u_remove"
              /\ UNCHANGED <<faults, st_result>>
  /\ UNCHANGED <<caller, tag, keyname, file_contents, role_info,
                 locations_yaml_contents, calls, fs_at_call, upgrade_calls,
                 json_opens, yaml_removed>>
  /\ UNCHANGED <<shell_vars, race_vars>>

(***************************************************************************)
(* Lines 321-322: os.remove of the YAML file if os.path.exists says it is  *)
(* there. os.remove raises OSError, which `except IOError` does not catch: *)
(* it propagates out of upgrade_json_file and out of the getter. Then      *)
(* upgrade_json_file returns: to the getter, or to its outside caller.     *)
(***************************************************************************)
UpgradeRemoveYaml ==
  /\ st_pc = "u_remove"
  /\ LET path == LocationsYamlLocation(keyname) IN
     \E fault \in BOOLEAN :
       IF fs[path].exists /\ fault
         THEN /\ faults' = faults \cup {"u_remove"}
              /\ EndCall(StRaised("OSError"))
              /\ UNCHANGED <<fs, yaml_removed>>
         ELSE /\ IF fs[path].exists
                   THEN /\ fs' = [fs EXCEPT ![path] = NoFile]
                        /\ yaml_removed' =
                             [yaml_removed EXCEPT ![keyname] =
                                [removed |-> TRUE, val |-> YamlSafeLoad(fs[path].text).val]]
                   ELSE UNCHANGED <<fs, yaml_removed>>
              /\ IF caller = "getter"
                   THEN st_pc' = "g_reread" /\ UNCHANGED st_result
                   ELSE EndCall(StReturned(Null))
              /\ UNCHANGED faults
  /\ UNCHANGED <<caller, tag, keyname, file_contents, role_info,
                 locations_yaml_contents, calls, fs_at_call, upgrade_calls,
                 json_opens, json_writes, json_written, migrations>>
  /\ UNCHANGED <<shell_vars, race_vars>>

(***************************************************************************)
(* Lines 265-266: back in the getter, seek(0) on the handle that is still  *)
(* open, read and yaml.safe_load again.                                    *)
(***************************************************************************)
GetReread ==
  /\ st_pc = "g_reread"
  /\ \E fault \in BOOLEAN :
       LET doc == YamlSafeLoad(SeekAndRead(fs[LocationsJsonLocation(keyname)].text)) IN
       IF fault
         THEN /\ faults' = faults \cup {"g_reread"}
              /\ EndCall(ConfigNotFound)
              /\ UNCHANGED file_contents
         ELSE /\ IF doc.ok
                   THEN /\ file_contents' = doc.val
                        /\ st_pc' = "g_return"
                        /\ UNCHANGED st_result
                   ELSE EndCall(StRaised("YAMLError")) /\ UNCHANGED file_contents
              /\ UNCHANGED faults
  /\ UNCHANGED <<fs, caller, tag, keyname, role_info, locations_yaml_contents,
                 calls, fs_at_call, upgrade_calls, json_opens, json_writes,
                 json_written, yaml_removed, migrations>>
  /\ UNCHANGED <<shell_vars, race_vars>>

(***************************************************************************)
(* Line 267: return file_contents.get('infrastructure_info', {}).get(tag)  *)
(***************************************************************************)
GetReturn ==
  /\ st_pc = "g_return"
  /\ EndCall(InfrastructureOption(file_contents, tag))
  /\ UNCHANGED <<fs, caller, tag, keyname, file_contents, role_info,
                 locations_yaml_contents, calls, fs_at_call, upgrade_calls,
                 json_opens, json_writes, faults, json_written, yaml_removed,
                 migrations>>
  /\ UNCHANGED <<shell_vars, race_vars>>

(***************************************************************************)
(* The caller has the result; the store can be called again.               *)
(***************************************************************************)
StoreDone ==
  /\ st_pc = "done"
  /\ st_pc' = "idle"
  /\ UNCHANGED <<fs, caller, tag, keyname, file_contents, role_info,
                 locations_yaml_contents, st_result, calls, fs_at_call,
                 upgrade_calls, json_opens, json_writes, faults, json_written,
                 yaml_removed, migrations>>
  /\ UNCHANGED <<shell_vars, race_vars>>

StoreNext ==
  \/ GetCall
  \/ GetOpenRead
  \/ UpgradeCall
  \/ UpgradeReadJson
  \/ UpgradeReadYaml
  \/ UpgradeOpenWrite
  \/ UpgradeWrite
  \/ UpgradeRemoveYaml
  \/ GetReread
  \/ GetReturn
  \/ StoreDone


(***************************************************************************)
(* A second process calls get_infrastructure_option once, on the same      *)
(* config directory, while the first is anywhere in its own calls. It runs *)
(* the same code (lines 260-326) on its own locals; the files and what has *)
(* been done to them are shared. Nothing locks the files.                  *)
(***************************************************************************)
\* the first process's arguments, locals and the history of its call
first_vars == <<st_pc, caller, tag, keyname, file_contents, role_info,
                locations_yaml_contents, st_result, calls, fs_at_call,
                upgrade_calls, json_opens, json_writes, faults>>

EndRacer(r) ==
  /\ r_result' = r
  /\ r_pc' = "done"

\* the "Couldn't upgrade" error on its way through the getter's handler
RacerMigrationFailed ==
  IF BadConfigurationIsIOError THEN ConfigNotFound ELSE MigrationFailed

RacerGetCall ==
  /\ r_pc = "idle"
  /\ \E t \in Tags, k \in KeyNames :
       /\ r_tag' = t
       /\ r_keyname' = k
  /\ r_pc' = "g_open"
  /\ UNCHANGED <<r_file_contents, r_role_info, r_locations_yaml_contents,
                 r_result, r_seen>>
  /\ UNCHANGED <<fs, first_vars, json_written, yaml_removed, migrations>>
  /\ UNCHANGED shell_vars

\* lines 261-264
RacerOpenRead ==
  /\ r_pc = "g_open"
  /\ \E fault \in BOOLEAN :
       LET file == fs[LocationsJsonLocation(r_keyname)]
           doc == YamlSafeLoad(file.text)
       IN
       IF fault \/ ~file.exists
         THEN EndRacer(ConfigNotFound) /\ UNCHANGED <<r_file_contents, r_seen>>
         ELSE /\ r_seen' = [read |-> TRUE, ok |-> doc.ok, val |-> doc.val,
                            during |-> IF keyname = r_keyname
                                         THEN st_pc ELSE "idle"]
              /\ IF ~doc.ok
                   THEN EndRacer(StRaised("YAMLError")) /\ UNCHANGED r_file_contents
                   ELSE /\ r_file_contents' = doc.val
                        /\ r_pc' = (IF IsLegacyList(doc.val)
                                      THEN "u_read_json" ELSE "g_return")
                        /\ UNCHANGED r_result
  /\ UNCHANGED <<r_tag, r_keyname, r_role_info, r_locations_yaml_contents>>
  /\ UNCHANGED <<fs, first_vars, json_written, yaml_removed, migrations>>
  /\ UNCHANGED shell_vars

\* lines 291-292
RacerUpgradeReadJson ==
  /\ r_pc = "u_read_json"
  /\ \E fault \in BOOLEAN :
       LET file == fs[LocationsJsonLocation(r_keyname)]
           doc == JsonLoads(file.text)
       IN
       IF fault \/ ~file.exists
         THEN EndRacer(RacerMigrationFailed) /\ UNCHANGED r_role_info
         ELSE IF ~doc.ok
           THEN EndRacer(StRaised("ValueError")) /\ UNCHANGED r_role_info
           ELSE /\ r_role_info' = doc.val
                /\ r_pc' = "u_read_yaml"
                /\ UNCHANGED r_result
  /\ UNCHANGED <<r_tag, r_keyname, r_file_contents, r_locations_yaml_contents,
                 r_seen>>
  /\ UNCHANGED <<fs, first_vars, json_written, yaml_removed, migrations>>
  /\ UNCHANGED shell_vars

\* lines 296-302
RacerUpgradeReadYaml ==
  /\ r_pc = "u_read_yaml"
  /\ \E fault \in BOOLEAN :
       LET file == fs[LocationsYamlLocation(r_keyname)]
           doc == YamlSafeLoad(file.text)
       IN
       IF fault \/ ~file.exists
         THEN EndRacer(RacerMigrationFailed) /\ UNCHANGED r_locations_yaml_contents
         ELSE IF ~doc.ok
           THEN EndRacer(StRaised("YAMLError"))
                /\ UNCHANGED r_locations_yaml_contents
           ELSE /\ r_locations_yaml_contents' = doc.val
                /\ r_pc' = "u_open_w"
                /\ UNCHANGED r_result
  /\ UNCHANGED <<r_tag, r_keyname, r_file_contents, r_role_info, r_seen>>
  /\ UNCHANGED <<fs, first_vars, json_written, yaml_removed, migrations>>
  /\ UNCHANGED shell_vars

\* line 314
RacerUpgradeOpenWrite ==
  /\ r_pc = "u_open_w"
  /\ \E fault \in BOOLEAN :
       IF fault
         THEN EndRacer(RacerMigrationFailed) /\ UNCHANGED fs
         ELSE /\ fs' = [fs EXCEPT ![LocationsJsonLocation(r_keyname)] = FileWith(<<>>)]
              /\ r_pc' = "u_write"
              /\ UNCHANGED r_result
  /\ UNCHANGED <<r_tag, r_keyname, r_file_contents, r_role_info,
                 r_locations_yaml_contents, r_seen>>
  /\ UNCHANGED <<first_vars, json_written, yaml_removed, migrations>>
  /\ UNCHANGED shell_vars

\* lines 307-315
RacerUpgradeWrite ==
  /\ r_pc = "u_write"
  /\ LET path == LocationsJsonLocation(r_keyname)
         text == JsonDumps(UnifiedDocument(r_role_info, r_locations_yaml_contents))
     IN
     \E fault \in BOOLEAN :
       IF fault
         THEN /\ \E part \in PartialTexts(text) :
                   fs' = [fs EXCEPT ![path] = FileWith(WriteAtStart(@.text, part))]
              /\ EndRacer(RacerMigrationFailed)
              /\ UNCHANGED <<json_written, migrations>>
         ELSE /\ fs' = [fs EXCEPT ![path] = FileWith(WriteAtStart(@.text, text))]
              /\ json_written' = [json_written EXCEPT ![r_keyname] = TRUE]
              /\ migrations' = [migrations EXCEPT ![r_keyname] = @ + 1]
              /\ r_pc' = "u_remove"
              /\ UNCHANGED r_result
  /\ UNCHANGED <<r_tag, r_keyname, r_file_contents, r_role_info,
                 r_locations_yaml_contents, r_seen>>
  /\ UNCHANGED <<first_vars, yaml_removed>>
  /\ UNCHANGED shell_vars

\* lines 321-322
RacerUpgradeRemoveYaml ==
  /\ r_pc = "u_remove"
  /\ LET path == LocationsYamlLocation(r_keyname) IN
     \E fault \in BOOLEAN :
       IF fs[path].exists /\ fault
         THEN /\ EndRacer(StRaised("OSError"))
              /\ UNCHANGED <<fs, yaml_removed>>
         ELSE /\ IF fs[path].exists
                   THEN /\ fs' = [fs EXCEPT ![path] = NoFile]
                        /\ yaml_removed' =
                             [yaml_removed EXCEPT ![r_keyname] =
                                [removed |-> TRUE, val |-> YamlSafeLoad(fs[path].text).val]]
                   ELSE UNCHANGED <<fs, yaml_removed>>
              /\ r_pc' = "g_reread"
              /\ UNCHANGED r_result
  /\ UNCHANGED <<r_tag, r_keyname, r_file_contents, r_role_info,
                 r_locations_yaml_contents, r_seen>>
  /\ UNCHANGED <<first_vars, json_written, migrations>>
  /\ UNCHANGED shell_vars

\* lines 265-266
RacerReread ==
  /\ r_pc = "g_reread"
  /\ \E fault \in BOOLEAN :
       LET doc == YamlSafeLoad(SeekAndRead(fs[LocationsJsonLocation(r_keyname)].text)) IN
       IF fault
         THEN EndRacer(ConfigNotFound) /\ UNCHANGED r_file_contents
         ELSE IF doc.ok
           THEN /\ r_file_contents' = doc.val
                /\ r_pc' = "g_return"
                /\ UNCHANGED r_result
           ELSE EndRacer(StRaised("YAMLError")) /\ UNCHANGED r_file_contents
  /\ UNCHANGED <<r_tag, r_keyname, r_role_info, r_locations_yaml_contents, r_seen>>
  /\ UNCHANGED <<fs, first_vars, json_written, yaml_removed, migrations>>
  /\ UNCHANGED shell_vars

\* line 267
RacerReturn ==
  /\ r_pc = "g_return"
  /\ EndRacer(InfrastructureOption(r_file_contents, r_tag))
  /\ UNCHANGED <<r_tag, r_keyname, r_file_contents, r_role_info,
                 r_locations_yaml_contents, r_seen>>
  /\ UNCHANGED <<fs, first_vars, json_written, yaml_removed, migrations>>
  /\ UNCHANGED shell_vars

RacerNext ==
  \/ RacerGetCall
  \/ RacerOpenRead
  \/ RacerUpgradeReadJson
  \/ RacerUpgradeReadYaml
  \/ RacerUpgradeOpenWrite
  \/ RacerUpgradeWrite
  \/ RacerUpgradeRemoveYaml
  \/ RacerReread
  \/ RacerReturn

\* one call of get_infrastructure_option by the first process
FirstGetterNext ==
  \/ GetCall
  \/ GetOpenRead
  \/ UpgradeReadJson
  \/ UpgradeReadYaml
  \/ UpgradeOpenWrite
  \/ UpgradeWrite
  \/ UpgradeRemoveYaml
  \/ GetReread
  \/ GetReturn

\* the two calls, their steps interleaved in every order
RaceNext == FirstGetterNext \/ RacerNext

(***************************************************************************)
(* shell(): the values of its arguments and of the command's environment.  *)
(***************************************************************************)
None == "None"

\* a command whose executable exists, and one whose executable does not
Commands == {"prog", "nosuchprog"}

StdinValues == {None, "", "data"}

NumRetriesValues == -1 .. MaxRetries

\* what an execution writes to its stdout/stderr
Outputs == {"out_a", "out_b"}

ShNotFound == "sh: nosuchprog: not found"

ExecutableFound(cmd) == cmd # "nosuchprog"

\* subprocess.Popen(command, shell=True, ...): the process started is
\* /bin/sh -c command. The exit statuses the shell can report for the command:
\* 127 when the command's executable is not found, else the command's own.
ExitStatuses(cmd) == IF ExecutableFound(cmd) THEN {0, 1} ELSE {127}

\* what the execution leaves in the_temp_file (stdout and stderr merged)
CapturedOutputs(cmd) == IF ExecutableFound(cmd) THEN Outputs ELSE {ShNotFound}

ClosedFile == [open |-> FALSE, data |-> ""]

\* tempfile.NamedTemporaryFile(): a fresh, empty, open file
NamedTemporaryFile == [open |-> TRUE, data |-> ""]

\* tempfile.TemporaryFile() followed by write(stdin) and seek(0)
TemporaryFileWith(s) == [open |-> TRUE, data |-> s]

Close(f) == [f EXCEPT !.open = FALSE]

\* read() with the seek(0) before it left out: the file position is at the end
ReadWithoutSeek(f) == ""

\* the_temp_file.seek(0); the_temp_file.read()
ReadTempFile(f) == f.data

\* the decrement left out
DecrementForgotten(t) == t

\* tries_left -= 1
Decrement(t) == t - 1

\* the loop test written as `tries_left > 1`
TruthyOffByOne(t) == t > 1

\* `while tries_left:` and `if tries_left:` (an int is true unless it is 0)
Truthy(t) == t # 0

\* `if stdin:` (None and the empty string are false)
StdinTruthy(s) == s # None /\ s # ""

NoResult == [kind |-> "none", output |-> "", with_stdin |-> FALSE]

\* return output
Returned(out) == [kind |-> "returned", output |-> out, with_stdin |-> FALSE]

\* ShellException("Executing command '{0}' failed:\n{1}")
CommandFailed(s, out) ==
  [kind |-> "CommandFailed", output |-> out, with_stdin |-> StdinTruthy(s)]

\* ShellException("Error executing command: '{0}':{1}")
CommandLaunchFailed(s) ==
  [kind |-> "CommandLaunchFailed", output |-> "", with_stdin |-> StdinTruthy(s)]

ShellInit ==
  /\ sh_pc = "idle"
  /\ command = "prog"
  /\ stdin = None
  /\ num_retries = DEFAULT_NUM_RETRIES
  /\ tries_left = 0
  /\ the_temp_file = ClosedFile
  /\ stdin_strio = ClosedFile
  /\ sh_result = NoResult
  /\ events = <<>>
  /\ outs = <<>>
  /\ open_out = 0
  /\ open_in = 0

(***************************************************************************)
(* shell(command, is_verbose, num_retries, stdin): entry.                  *)
(***************************************************************************)
ShellCall ==
  /\ sh_pc = "idle"
  /\ \E c \in Commands, s \in StdinValues, n \in NumRetriesValues :
       /\ command' = c
       /\ stdin' = s
       /\ num_retries' = n
       /\ tries_left' = n
  /\ the_temp_file' = ClosedFile
  /\ stdin_strio' = ClosedFile
  /\ sh_result' = NoResult
  /\ events' = <<>>
  /\ outs' = <<>>
  /\ open_out' = 0
  /\ open_in' = 0
  /\ sh_pc' = "while"
  /\ UNCHANGED <<store_vars, race_vars>>

(***************************************************************************)
(* The pass with the `try ... except OSError` placed inside the loop and   *)
(* counting the failed launch as a failed try.                             *)
(***************************************************************************)
ShellAttemptRetriesLaunch ==
  /\ sh_pc = "while"
  /\ Truthy(tries_left)
  /\ Len(outs) < MaxAttempts
  /\ the_temp_file' = NamedTemporaryFile
  /\ open_out' = open_out + 1
  /\ IF stdin # None
       THEN stdin_strio' = TemporaryFileWith(stdin) /\ open_in' = open_in + 1
       ELSE UNCHANGED <<stdin_strio, open_in>>
  /\ \/ /\ events' = Append(events, "popen")
        /\ sh_pc' = "running"
        /\ UNCHANGED <<sh_result, tries_left>>
     \/ /\ events' = Append(events, "oserror")
        /\ tries_left' = Decrement(tries_left)
        /\ IF Truthy(Decrement(tries_left))
             THEN sh_pc' = "while" /\ UNCHANGED sh_result
             ELSE sh_result' = CommandLaunchFailed(stdin) /\ sh_pc' = "done"
  /\ UNCHANGED <<command, stdin, num_retries, outs>>
  /\ UNCHANGED <<store_vars, race_vars>>

(***************************************************************************)
(* One pass of `while tries_left:` up to Popen: the temp files are         *)
(* allocated and the process is started, or Popen raises OSError, which    *)
(* the except clause of shell() turns into the launch error.               *)
(***************************************************************************)
ShellAttempt ==
  /\ sh_pc = "while"
  /\ Truthy(tries_left)
  /\ Len(outs) < MaxAttempts
  /\ the_temp_file' = NamedTemporaryFile
  /\ open_out' = open_out + 1
  /\ IF stdin # None
       THEN stdin_strio' = TemporaryFileWith(stdin) /\ open_in' = open_in + 1
       ELSE UNCHANGED <<stdin_strio, open_in>>
  /\ \/ /\ events' = Append(events, "popen")
        /\ sh_pc' = "running"
        /\ UNCHANGED sh_result
     \/ /\ events' = Append(events, "oserror")
        /\ sh_result' = CommandLaunchFailed(stdin)
        /\ sh_pc' = "done"
  /\ UNCHANGED <<command, stdin, num_retries, tries_left, outs>>
  /\ UNCHANGED <<store_vars, race_vars>>

(***************************************************************************)
(* The loop is left with tries_left = 0: shell() ends without a return     *)
(* statement, that is, it returns None.                                    *)
(***************************************************************************)
ShellLoopExit ==
  /\ sh_pc = "while"
  /\ ~Truthy(tries_left)
  /\ sh_result' = Returned(None)
  /\ sh_pc' = "done"
  /\ UNCHANGED <<command, stdin, num_retries, tries_left, the_temp_file,
                 stdin_strio, events, outs, open_out, open_in>>
  /\ UNCHANGED <<store_vars, race_vars>>

(***************************************************************************)
(* result.wait() and what follows it in the pass: the exit status decides  *)
(* between return, retry and the ShellException of the last failure.       *)
(***************************************************************************)
ShellWait ==
  /\ sh_pc = "running"
  /\ \E rc \in ExitStatuses(command), out \in CapturedOutputs(command) :
       LET file == [the_temp_file EXCEPT !.data = out]
           left == Decrement(tries_left)
       IN
       /\ outs' = Append(outs, out)
       /\ IF stdin # None
            THEN stdin_strio' = Close(stdin_strio) /\ open_in' = open_in - 1
            ELSE UNCHANGED <<stdin_strio, open_in>>
       /\ the_temp_file' = Close(file)
       /\ open_out' = open_out - 1
       /\ IF rc = 0
            THEN /\ events' = Append(events, "exit0")
                 /\ sh_result' = Returned(ReadTempFile(file))
                 /\ sh_pc' = "done"
                 /\ UNCHANGED tries_left
            ELSE /\ events' = Append(events, "exitN")
                 /\ tries_left' = left
                 /\ IF Truthy(left)
                      THEN sh_pc' = "sleep" /\ UNCHANGED sh_result
                      ELSE /\ sh_result' = CommandFailed(stdin, ReadTempFile(file))
                           /\ sh_pc' = "done"
  /\ UNCHANGED <<command, stdin, num_retries>>
  /\ UNCHANGED <<store_vars, race_vars>>

(***************************************************************************)
(* The pass with time.sleep(1) left out.                                   *)
(***************************************************************************)
ShellSleepSkipped ==
  /\ sh_pc = "sleep"
  /\ sh_pc' = "while"
  /\ UNCHANGED <<command, stdin, num_retries, tries_left, the_temp_file,
                 stdin_strio, sh_result, events, outs, open_out, open_in>>
  /\ UNCHANGED <<store_vars, race_vars>>

(***************************************************************************)
(* time.sleep(1), then back to the loop test.                              *)
(***************************************************************************)
ShellSleep ==
  /\ sh_pc = "sleep"
  /\ events' = Append(events, "sleep")
  /\ sh_pc' = "while"
  /\ UNCHANGED <<command, stdin, num_retries, tries_left, the_temp_file,
                 stdin_strio, sh_result, outs, open_out, open_in>>
  /\ UNCHANGED <<store_vars, race_vars>>

(***************************************************************************)
(* The caller has the result; shell() can be called again.                 *)
(***************************************************************************)
ShellDone ==
  /\ sh_pc = "done"
  /\ sh_pc' = "idle"
  /\ UNCHANGED <<command, stdin, num_retries, tries_left, the_temp_file,
                 stdin_strio, sh_result, events, outs, open_out, open_in>>
  /\ UNCHANGED <<store_vars, race_vars>>

ShellNext ==
  \/ ShellCall
  \/ ShellAttempt
  \/ ShellLoopExit
  \/ ShellWait
  \/ ShellSleep
  \/ ShellDone

InitShell == ShellInit /\ StoreIdle

SpecShell == InitShell /\ [][ShellNext]_vars

InitStore == StoreInit /\ ShellInit

SpecStore == InitStore /\ [][StoreNext]_vars

\* two processes at work on the legacy pair of keyname X
InitRace ==
  /\ \E y \in LegacyYamlTexts :
       StoreAtRest([p \in Paths |->
                      IF p = LocationsJsonLocation("X")
                        THEN FileWith(JsonDumps(LegacyNodes))
                      ELSE IF p = LocationsYamlLocation("X") THEN FileWith(y)
                      ELSE NoFile])
  /\ ShellInit

SpecRace == InitRace /\ [][RaceNext]_vars

\* the two components share no state: each has its own specification
\* (SpecShell, SpecStore); Spec runs them side by side
Init == InitStore

Next == ShellNext \/ StoreNext

Spec == Init /\ [][Next]_vars

(***************************************************************************)
(* Properties of shell().                                                  *)
(***************************************************************************)
Count(seq, e) == Cardinality({i \in DOMAIN seq : seq[i] = e})

\* the call is over: shell() has returned or raised
ShellOver == sh_pc \in {"done", "idle"} /\ sh_result # NoResult

\* every execution of the call so far exited non-zero, and every Popen started
AllExitedNonZero == Count(events, "exit0") = 0 /\ Count(events, "oserror") = 0

\* C1: with num_retries = N >= 1 and every execution exiting non-zero, the
\* command is never executed more than N times, and shell() ends only after
\* exactly N executions, raising the CommandFailed error whose output is the
\* output captured by the N-th execution.
C1_ExhaustionAfterExactlyN ==
  (num_retries >= 1 /\ AllExitedNonZero) =>
    /\ Count(events, "popen") <= num_retries
    /\ Len(outs) <= num_retries
    /\ ShellOver =>
         /\ Len(outs) = num_retries
         /\ Count(events, "popen") = num_retries
         /\ sh_result.kind = "CommandFailed"
         /\ sh_result.output = outs[num_retries]

C1_Witness ==
  /\ sh_pc = "done"
  /\ num_retries = 3
  /\ AllExitedNonZero
  /\ sh_result.kind = "CommandFailed"
  /\ Len(outs) = 3
  /\ outs[1] # outs[3]
  /\ outs[2] # outs[3]

\* C2: with num_retries = N >= 1, when the executions 1..k-1 exit non-zero
\* and execution k exits 0, shell() has executed the command exactly k
\* times (k <= N), it returns the output captured by execution k, and the
\* exit of execution k is the last thing the call did: no execution and no
\* sleep follows it.
C2_SuccessReturnsAtOnce ==
  (num_retries >= 1 /\ Count(events, "exit0") > 0) =>
    LET k == Len(outs) IN
    /\ ShellOver
    /\ k >= 1 /\ k <= num_retries
    /\ Count(events, "popen") = k
    /\ Count(events, "exit0") = 1
    /\ Count(events, "exitN") = k - 1
    /\ events[Len(events)] = "exit0"
    /\ Count(events, "sleep") = k - 1
    /\ sh_result = Returned(outs[k])

C2_Witness ==
  /\ sh_pc = "done"
  /\ num_retries = 3
  /\ Len(outs) = 2
  /\ events = <<"popen", "exitN", "sleep", "popen", "exit0">>
  /\ outs[1] # outs[2]
  /\ sh_result = Returned(outs[2])

\* C3 as stated: a command whose executable cannot be found is attempted
\* exactly once, whatever num_retries >= 1 is, and shell() raises the
\* launch-failure error.
C3_Original ==
  (ShellOver /\ num_retries >= 1 /\ ~ExecutableFound(command)) =>
    /\ Count(events, "popen") + Count(events, "oserror") = 1
    /\ sh_result.kind = "CommandLaunchFailed"

\* C3 amended: a command whose executable cannot be found is started through
\* the shell, which exits non-zero, so it is retried like any failing
\* command: with num_retries = N >= 1 it is executed N times and shell()
\* raises the CommandFailed error with the shell's output; only an OSError
\* raised by Popen ends the call at once with the launch-failure error.
C3_MissingExecutableIsRetried ==
  (num_retries >= 1 /\ ~ExecutableFound(command)) =>
    /\ Count(events, "exit0") = 0
    /\ Len(outs) <= num_retries
    /\ ShellOver =>
         IF Count(events, "oserror") > 0
           THEN /\ sh_result.kind = "CommandLaunchFailed"
                /\ events[Len(events)] = "oserror"
                /\ Count(events, "oserror") = 1
           ELSE /\ sh_result.kind = "CommandFailed"
                /\ Len(outs) = num_retries
                /\ Count(events, "exitN") = num_retries
                /\ sh_result.output = ShNotFound

C3_Witness ==
  /\ sh_pc = "done"
  /\ ~ExecutableFound(command)
  /\ num_retries = 3
  /\ Count(events, "exitN") = 3
  /\ sh_result.kind = "CommandFailed"

(***************************************************************************)
(* Properties of the locations store.                                      *)
(***************************************************************************)
JsonFile(files, k) == files[LocationsJsonLocation(k)]

YamlFile(files, k) == files[LocationsYamlLocation(k)]

\* the JSON file of k is there and decodes to a value of type ty
JsonDecodesTo(files, k, ty) ==
  /\ JsonFile(files, k).exists
  /\ JsonLoads(JsonFile(files, k).text).ok
  /\ JsonLoads(JsonFile(files, k).text).val.t = ty

\* the legacy layout: a JSON list and a YAML file that can be read
LegacyAt(files, k) ==
  /\ JsonDecodesTo(files, k, "list")
  /\ YamlFile(files, k).exists
  /\ YamlSafeLoad(YamlFile(files, k).text).ok

NodesAt(files, k) == JsonLoads(JsonFile(files, k).text).val

InfoAt(files, k) == YamlSafeLoad(YamlFile(files, k).text).val

\* a call of get_infrastructure_option is in progress or was the last call
InGetter == caller = "getter"

\* the last call was get_infrastructure_option and it has returned or raised
GetterOver == InGetter /\ st_pc \in {"done", "idle"}

\* C4: for a legacy pair of keyname X (a JSON file decoding to a list L, a
\* YAML file decoding to a mapping M) and a tag t of M, one call
\* get_infrastructure_option(t, X) in which no I/O step fails returns M[t],
\* and after it the JSON file decodes to {node_info: L,
\* infrastructure_info: M} and the YAML file is gone.
C4_LegacyPairIsMigrated ==
  (/\ GetterOver
   /\ faults = {}
   /\ LegacyAt(fs_at_call, keyname)
   /\ InfoAt(fs_at_call, keyname).t = "map"
   /\ tag \in DOMAIN InfoAt(fs_at_call, keyname).fields) =>
    LET L == NodesAt(fs_at_call, keyname)
        M == InfoAt(fs_at_call, keyname)
    IN
    /\ st_result = [kind |-> "returned", exc |-> "", val |-> M.fields[tag]]
    /\ JsonFile(fs, keyname).exists
    /\ JsonLoads(JsonFile(fs, keyname).text) =
         [ok |-> TRUE,
          val |-> Map(("node_info" :> L) @@ ("infrastructure_info" :> M))]
    /\ ~YamlFile(fs, keyname).exists

C4_Witness ==
  /\ st_pc = "done"
  /\ GetterOver
  /\ faults = {}
  /\ keyname = "X"
  /\ tag = "project"
  /\ LegacyAt(fs_at_call, "X")
  /\ InfoAt(fs_at_call, "X") = ZoneAndProject
  /\ st_result.kind = "returned"
  /\ st_result.val = Str("p1")
  /\ ~YamlFile(fs, "X").exists

\* C5: migration happens at most once over a sequence of getter calls. A
\* getter call never invokes upgrade_json_file more than once; a call that
\* starts on a legacy document and meets no I/O failure invokes it exactly
\* once, with exactly one write of the JSON file; a call that starts on a
\* JSON file whose top-level value is a mapping never invokes it and never
\* opens or writes the JSON file; and over all the getter calls of a run at
\* most one migration is completed for a keyname.
C5_MigrationAtMostOnce ==
  /\ \A k \in KeyNames : migrations[k] <= 1
  /\ InGetter =>
       /\ upgrade_calls <= 1
       /\ json_writes <= upgrade_calls
       /\ json_opens <= upgrade_calls
       /\ JsonDecodesTo(fs_at_call, keyname, "map") =>
            /\ upgrade_calls = 0
            /\ JsonFile(fs, keyname) = JsonFile(fs_at_call, keyname)
       /\ (GetterOver /\ faults = {} /\ LegacyAt(fs_at_call, keyname)) =>
            /\ upgrade_calls = 1
            /\ json_opens = 1
            /\ json_writes = 1
            /\ migrations[keyname] = 1

C5_Witness ==
  /\ st_pc = "done"
  /\ GetterOver
  /\ calls = 2
  /\ keyname = "X"
  /\ migrations["X"] = 1
  /\ json_written["X"]
  /\ JsonDecodesTo(fs_at_call, "X", "map")
  /\ upgrade_calls = 0
  /\ json_writes = 0
  /\ st_result.kind = "returned"

\* C6: a getter call on an already unified document (the JSON file decodes
\* to a mapping when the call begins) changes nothing on disk: at every
\* point of the call and after it, for every tag, every file of the config
\* directory - the JSON file, the YAML file at the sibling path, the files
\* of the other keynames - is as it was when the call began.
C6_GetterOnUnifiedChangesNothing ==
  (InGetter /\ JsonDecodesTo(fs_at_call, keyname, "map")) => fs = fs_at_call

C6_Witness ==
  /\ st_pc = "done"
  /\ GetterOver
  /\ keyname = "X"
  /\ tag = "group"
  /\ JsonDecodesTo(fs_at_call, "X", "map")
  /\ YamlFile(fs_at_call, "X").exists
  /\ YamlFile(fs, "X").exists
  /\ st_result = [kind |-> "returned", exc |-> "", val |-> Null]

\* the tag is not a field of the document's infrastructure_info: the section
\* is missing, or holds nothing (null), or is a mapping without the tag
TagAbsent(doc, t) ==
  \/ "infrastructure_info" \notin DOMAIN doc.fields
  \/ doc.fields["infrastructure_info"].t = "null"
  \/ /\ doc.fields["infrastructure_info"].t = "map"
     /\ t \notin DOMAIN doc.fields["infrastructure_info"].fields

\* C7 as stated: when the getter has ended without any I/O failure and the
\* locations document (unified before the call, or migrated during it) is a
\* mapping whose infrastructure_info does not have the tag, the call has
\* returned None and raised nothing.
C7_Original ==
  (/\ GetterOver
   /\ faults = {}
   /\ JsonDecodesTo(fs, keyname, "map")
   /\ TagAbsent(JsonLoads(JsonFile(fs, keyname).text).val, tag)) =>
    st_result = [kind |-> "returned", exc |-> "", val |-> Null]

\* C8: when the JSON locations file of the keyname does not exist or cannot
\* be opened, get_infrastructure_option, for every tag, raises the
\* BadConfigurationException "Couldn't read from locations file", returns no
\* value, does not invoke upgrade_json_file and leaves every file as it was.
C8_NoLocationsFile ==
  (/\ InGetter
   /\ st_pc # "g_open"
   /\ ~JsonFile(fs_at_call, keyname).exists \/ "g_open" \in faults) =>
    /\ GetterOver
    /\ st_result.kind = "raised"
    /\ st_result.exc = "BadConfigurationException: Couldn't read from locations file"
    /\ upgrade_calls = 0
    /\ json_opens = 0
    /\ fs = fs_at_call

C8_Witness ==
  /\ st_pc = "done"
  /\ GetterOver
  /\ keyname = "X"
  /\ ~JsonFile(fs_at_call, "X").exists
  /\ YamlFile(fs_at_call, "X").exists
  /\ st_result.kind = "raised"
  /\ fs = fs_at_call

\* C9 as stated: after any sequence of calls, whenever this module has
\* written the JSON locations file of a keyname (a write it completed), the
\* file decodes to a mapping whose top-level keys are exactly node_info and
\* infrastructure_info.
C9_Original ==
  \A k \in KeyNames :
    (st_pc \in {"done", "idle"} /\ json_written[k]) =>
      /\ JsonDecodesTo(fs, k, "map")
      /\ DOMAIN JsonLoads(JsonFile(fs, k).text).val.fields
           = {"node_info", "infrastructure_info"}

\* C10: the legacy YAML file is removed only after the unified JSON write
\* has succeeded: in every state in which this module has removed the YAML
\* file of a keyname - also after a later read or write inside
\* upgrade_json_file has failed - the file is gone and the JSON file decodes
\* to a mapping with exactly the keys node_info and infrastructure_info whose
\* infrastructure_info is the content the YAML file had.
C10_YamlRemovedOnlyAfterWrite ==
  \A k \in KeyNames :
    yaml_removed[k].removed =>
      /\ json_written[k]
      /\ ~YamlFile(fs, k).exists
      /\ JsonDecodesTo(fs, k, "map")
      /\ DOMAIN JsonLoads(JsonFile(fs, k).text).val.fields
           = {"node_info", "infrastructure_info"}
      /\ JsonLoads(JsonFile(fs, k).text).val.fields["infrastructure_info"]
           = yaml_removed[k].val

C10_Witness ==
  /\ st_pc = "done"
  /\ calls = 2
  /\ keyname = "X"
  /\ caller = "direct"
  /\ yaml_removed["X"].removed
  /\ yaml_removed["X"].val = ZoneAndProject
  /\ st_result.kind = "raised"
  /\ json_opens = 0


(***************************************************************************)
(* Claims about the failures of the migration.                             *)
(***************************************************************************)
\* the I/O step of upgrade_json_file that failed in the current call
JsonUnreadable == faults \cap {"u_read_json", "u_read_json_absent"} # {}
YamlUnreadable == faults \cap {"u_read_yaml", "u_read_yaml_absent"} # {}
JsonUnwritable == faults \cap {"u_open_w", "u_write"} # {}

\* C11: when the legacy JSON file cannot be read, or the legacy YAML file
\* cannot be read, or the unified JSON file cannot be written, the call of
\* upgrade_json_file is over and has raised BadConfigurationException
\* "Couldn't upgrade locations json file"; a get_infrastructure_option call
\* that triggered the upgrade ends with that same error, not with the
\* "Couldn't read" error, and returns no value.
C11_MigrationFailedInThreeCases ==
  (JsonUnreadable \/ YamlUnreadable \/ JsonUnwritable) =>
    /\ st_pc \in {"done", "idle"}
    /\ caller \in {"getter", "direct"}
    /\ st_result.kind = "raised"
    /\ st_result.exc =
         "BadConfigurationException: Couldn't upgrade locations json file"

C11_Witness ==
  /\ InGetter
  /\ JsonUnwritable
  /\ st_pc = "done"
  /\ st_result.kind = "raised"

\* C12: a failing removal of the legacy YAML file after a successful write
\* of the unified JSON file is not an error of the migration:
\* upgrade_json_file returns to its caller, and the
\* get_infrastructure_option call that triggered the migration returns the
\* field of the unified document.
C12_Original ==
  (st_pc \in {"done", "idle"} /\ "u_remove" \in faults) =>
    /\ st_result.kind = "returned"
    /\ InGetter =>
         st_result = InfrastructureOption(NodesAt(fs, keyname), tag)

\* C17: whatever calls of get_infrastructure_option and upgrade_json_file
\* are made, a JSON file this module has written never gets a node_info
\* that is itself a mapping: its node_info is the legacy node list.
C17_Original ==
  \A k \in KeyNames :
    (json_written[k] /\ JsonDecodesTo(fs, k, "map")
       /\ "node_info" \in DOMAIN NodesAt(fs, k).fields) =>
      NodesAt(fs, k).fields["node_info"] = LegacyNodes

\* C18: when a call has raised the "Couldn't upgrade" error, the JSON file
\* and the legacy YAML file of the keyname are as they were when the call
\* began, so a JSON file that was a legacy list still is one.
C18_Original ==
  (st_pc \in {"done", "idle"} /\ st_result.kind = "raised"
     /\ st_result.exc =
          "BadConfigurationException: Couldn't upgrade locations json file") =>
    /\ JsonFile(fs, keyname) = JsonFile(fs_at_call, keyname)
    /\ YamlFile(fs, keyname) = YamlFile(fs_at_call, keyname)
    /\ JsonDecodesTo(fs_at_call, keyname, "list") =>
         JsonDecodesTo(fs, keyname, "list")

(***************************************************************************)
(* Claims about the temporary files, the launch error and the waits of     *)
(* shell().                                                                *)
(***************************************************************************)
\* C13: at most one output temp file and one stdin temp file of shell() is
\* open at any moment, none is open when the loop starts a new attempt, and
\* none is open once shell() has returned or raised.
C13_Original ==
  /\ open_out <= 1
  /\ open_in <= 1
  /\ sh_pc = "while" => (open_out = 0 /\ open_in = 0)
  /\ ShellOver =>
       /\ open_out = 0 /\ open_in = 0
       /\ ~the_temp_file.open /\ ~stdin_strio.open

\* the attempts of the call so far: a Popen that started or that raised
Attempts == Count(events, "popen") + Count(events, "oserror")

Waits == Count(events, "sleep")

\* C14: an OSError of Popen, on whichever attempt, is the last thing the
\* call does: no attempt and no wait follow it, the call is over whatever
\* number of tries is left, and it has raised the launch error ("Error
\* executing command", with the stdin when there is one), not the error of
\* retry exhaustion.
C14_LaunchErrorIsTerminal ==
  Count(events, "oserror") > 0 =>
    /\ Count(events, "oserror") = 1
    /\ events[Len(events)] = "oserror"
    /\ sh_pc \in {"done", "idle"}
    /\ sh_result.kind = "CommandLaunchFailed"
    /\ sh_result.with_stdin = (stdin # None /\ stdin # "")

C14_Witness ==
  /\ ShellOver
  /\ events = <<"popen", "exitN", "sleep", "oserror">>
  /\ tries_left = 2
  /\ sh_result.kind = "CommandLaunchFailed"

\* C15: shell() returns a value only after an execution that exited with
\* status 0, and the value is the output of that execution, whatever
\* num_retries it was called with.
C15_Original ==
  (ShellOver /\ sh_result.kind = "returned") =>
    /\ events # <<>>
    /\ events[Len(events)] = "exit0"
    /\ sh_result.output = outs[Len(outs)]

\* C16: with num_retries >= 1, a wait comes only right after an execution
\* that exited non-zero, every attempt but the first comes right after a
\* wait, an execution that exited non-zero with tries left is followed by a
\* wait and nothing follows an exit with status 0; a call that is over has
\* made m >= 1 attempts and m - 1 waits, and ended on a non-zero exit only
\* on its num_retries-th execution.
C16_WaitsBetweenAttempts ==
  num_retries >= 1 =>
    /\ \A i \in DOMAIN events :
         /\ events[i] = "sleep" => (i > 1 /\ events[i - 1] = "exitN")
         /\ (events[i] \in {"popen", "oserror"} /\ i > 1) =>
              events[i - 1] = "sleep"
         /\ events[i] = "exit0" => i = Len(events)
         /\ (events[i] = "exitN" /\ i < Len(events)) =>
              events[i + 1] = "sleep"
    /\ ShellOver =>
         /\ Attempts >= 1
         /\ Waits = Attempts - 1
         /\ events[Len(events)] # "sleep"
         /\ events[Len(events)] = "exitN" =>
              Count(events, "exitN") = num_retries

C16_Witness ==
  /\ ShellOver
  /\ num_retries = 3
  /\ Attempts = 3
  /\ Waits = 2
  /\ sh_result.kind = "CommandFailed"

(***************************************************************************)
(* Two processes and one legacy pair.                                      *)
(***************************************************************************)
\* the value is the legacy list or a mapping with the two keys of the
\* unified document
ListOrUnified(v) ==
  \/ v.t = "list"
  \/ v.t = "map" /\ DOMAIN v.fields = {"node_info", "infrastructure_info"}

\* C19: nothing keeps a second process from reading the JSON file while the
\* first is between its open(..., 'w') and the end of its write: a
\* get_infrastructure_option call whose read (lines 261-262) falls there
\* finds the file emptied and decodes None, which is neither the legacy list
\* nor the unified mapping, and it ends without a value (AttributeError at
\* line 267). C19_Witness is the interleaving in which that happens.
C19_ReaderInsideTheOverwrite ==
  (r_seen.read /\ r_seen.during = "u_write") =>
    /\ r_seen.ok
    /\ r_seen.val = Null
    /\ ~ListOrUnified(r_seen.val)
    /\ r_pc \in {"g_return", "done"}
    /\ r_pc = "done" =>
         (r_result.kind = "raised" /\ r_result.exc = "AttributeError")

C19_Witness ==
  /\ InGetter
  /\ keyname = "X"
  /\ r_keyname = "X"
  /\ LegacyAt(fs_at_call, "X")
  /\ r_seen.read
  /\ r_seen.during = "u_write"
  /\ ~ListOrUnified(r_seen.val)
  /\ r_pc = "done"
  /\ r_result.kind = "raised"

====
